---- MODULE Spec2Model ----
(***************************************************************************)
(* tiny_riff: a reader of RIFF chunks over a borrowed byte slice.          *)
(* The model follows src/src/lib.rs: ChunkId (from_ascii, to_ascii), the   *)
(* primitive readers read_id_at, read_len_at, read_data_at, the chunk      *)
(* assembly read_chunk_at and the two public operations of RiffReader,     *)
(* read_next_chunk and get_chunk.                                          *)
(*                                                                         *)
(* Offsets are 0-based as in the source; a byte slice is a sequence of     *)
(* numbers 0..255 and data[i] of the source is data[i+1] here.  A Rust     *)
(* panic (slice index out of range, usize subtraction below zero, failed   *)
(* unwrap) is the result kind "Panic"; the process does not continue       *)
(* after it.                                                               *)
(***************************************************************************)
EXTENDS Integers, Sequences, FiniteSets, TLC

VARIABLES
    data,    \* RiffReader.data: the underlying byte slice
    pos,     \* RiffReader.pos: index of the next byte to read
    rres,    \* outcome of the latest read_next_chunk call
    gres,    \* outcome of the latest get_chunk call
    idIn,    \* the 4 bytes handed to ChunkId::from_ascii
    idRes,   \* outcome of ChunkId::from_ascii
    strRes   \* outcome of ChunkId::to_ascii

vars == <<data, pos, rres, gres, idIn, idRes, strRes>>

----------------------------------------------------------------------------
(* Bounds of the explored inputs *)

\* number of tag+length+payload records a buffer is built from
MaxRecs == 2
\* largest length a record declares in its length field
MaxLen == 1
\* largest number of payload bytes that actually follow a record's header
MaxPay == 2

----------------------------------------------------------------------------
(* Results *)

NoCall == [kind |-> "NoCall"]
Panic == [kind |-> "Panic"]
EndOfData == [kind |-> "EndOfData"]
InvalidIDNotASCII == [kind |-> "InvalidIDNotASCII"]
EncounteredInvalidIDNotASCII(p) == [kind |-> "EncounteredInvalidIDNotASCII", p |-> p]
UnexpectedEndOfData(len_pos, expected, have) ==
    [kind |-> "UnexpectedEndOfData", len_pos |-> len_pos, expected |-> expected, have |-> have]
Chunk(d, id, len) == [kind |-> "Chunk", data |-> d, id |-> id, len |-> len]
NotFound == [kind |-> "None"]

\* the kinds that are values of RiffError
ErrorKinds == {"EndOfData", "InvalidIDNotASCII", "EncounteredInvalidIDNotASCII",
               "UnexpectedEndOfData"}

----------------------------------------------------------------------------
(* Byte helpers of core the source relies on *)

\* [u8]::is_ascii: every byte has its high bit clear
is_ascii(bytes) == \A i \in 1..Len(bytes) : bytes[i] < 128

\* &data[a..b] with 0-based a, b; only evaluated where the range is valid
Slice(d, a, b) == SubSeq(d, a + 1, b)

\* whether &data[a..b] is a valid range (otherwise the index panics)
SliceOk(d, a, b) == a <= b /\ b <= Len(d)

\* u32::from_le_bytes
from_le_bytes(b) == b[1] + 256 * b[2] + 65536 * b[3] + 16777216 * b[4]

\* number of bytes of the UTF-8 sequence that starts at bytes[i]; 0 if invalid
Utf8Width(bytes, i) ==
    LET b1 == bytes[i]
        n == Len(bytes)
        cont(j) == j <= n /\ bytes[j] >= 128 /\ bytes[j] <= 191
    IN  IF b1 < 128 THEN 1
        ELSE IF b1 >= 194 /\ b1 <= 223 THEN (IF cont(i + 1) THEN 2 ELSE 0)
        ELSE IF b1 >= 224 /\ b1 <= 239
             THEN (IF /\ cont(i + 1) /\ cont(i + 2)
                      /\ (b1 = 224 => bytes[i + 1] >= 160)
                      /\ (b1 = 237 => bytes[i + 1] <= 159)
                   THEN 3 ELSE 0)
        ELSE IF b1 >= 240 /\ b1 <= 244
             THEN (IF /\ cont(i + 1) /\ cont(i + 2) /\ cont(i + 3)
                      /\ (b1 = 240 => bytes[i + 1] >= 144)
                      /\ (b1 = 244 => bytes[i + 1] <= 143)
                   THEN 4 ELSE 0)
        ELSE 0

\* the code point of the UTF-8 sequence of width w that starts at bytes[i]
Utf8Char(bytes, i, w) ==
    IF w = 1 THEN bytes[i]
    ELSE IF w = 2 THEN (bytes[i] - 192) * 64 + (bytes[i + 1] - 128)
    ELSE IF w = 3 THEN (bytes[i] - 224) * 4096 + (bytes[i + 1] - 128) * 64
                       + (bytes[i + 2] - 128)
    ELSE (bytes[i] - 240) * 262144 + (bytes[i + 1] - 128) * 4096
         + (bytes[i + 2] - 128) * 64 + (bytes[i + 3] - 128)

RECURSIVE Utf8From(_, _)
\* str::from_utf8 from index i on: the characters, or "Err"
Utf8From(bytes, i) ==
    IF i > Len(bytes) THEN [ok |-> TRUE, chars |-> <<>>]
    ELSE LET w == Utf8Width(bytes, i)
         IN  IF w = 0 THEN [ok |-> FALSE, chars |-> <<>>]
             ELSE LET rest == Utf8From(bytes, i + w)
                  IN  IF rest.ok
                      THEN [ok |-> TRUE,
                            chars |-> <<Utf8Char(bytes, i, w)>> \o rest.chars]
                      ELSE rest

from_utf8(bytes) == Utf8From(bytes, 1)

----------------------------------------------------------------------------
(* ChunkId *)

\* from_ascii with the ASCII test one off (0x80 accepted)
from_ascii_accepts_0x80(id) ==
    IF ~(\A i \in 1..Len(id) : id[i] <= 128)
    THEN InvalidIDNotASCII
    ELSE [kind |-> "ChunkId", id |-> id]

\* ChunkId::from_ascii
from_ascii(id) ==
    IF ~is_ascii(id)
    THEN InvalidIDNotASCII
    ELSE [kind |-> "ChunkId", id |-> id]

\* ChunkId::to_ascii: str::from_utf8(self.id).unwrap()
to_ascii(self) ==
    LET r == from_utf8(self.id)
    IN  IF r.ok THEN [kind |-> "Str", chars |-> r.chars] ELSE Panic

----------------------------------------------------------------------------
(* Primitive readers: each returns [pos |-> new position, res |-> result] *)

read_id_at(d, pos0) ==
    IF pos0 > Len(d) THEN [pos |-> pos0, res |-> Panic]
    ELSE IF (Len(d) - pos0) < 4 THEN [pos |-> pos0, res |-> EndOfData]
    ELSE LET as_bytes == Slice(d, pos0, pos0 + 4)
             p == pos0 + 4
         IN  IF ~is_ascii(as_bytes)
             THEN [pos |-> p, res |-> EncounteredInvalidIDNotASCII(p)]
             ELSE [pos |-> p, res |-> [kind |-> "Ok", val |-> as_bytes]]

read_len_at(d, pos0) ==
    IF pos0 > Len(d) THEN [pos |-> pos0, res |-> Panic]
    ELSE IF (Len(d) - pos0) < 4 THEN [pos |-> pos0, res |-> EndOfData]
    ELSE LET len_as_bytes == Slice(d, pos0, pos0 + 4)
             len == from_le_bytes(len_as_bytes)
         IN  [pos |-> pos0 + 4, res |-> [kind |-> "Ok", val |-> len]]

read_data_at(d, pos0, len) ==
    IF Len(d) <= (pos0 + len)
    THEN IF ~SliceOk(d, pos0, pos0 + len)
         THEN [pos |-> pos0, res |-> Panic]
         ELSE [pos |-> pos0 + len + (IF (len % 2) # 0 THEN 1 ELSE 0),
               res |-> [kind |-> "Ok", val |-> Slice(d, pos0, pos0 + len)]]
    ELSE [pos |-> pos0,
          res |-> UnexpectedEndOfData(pos0 - 4, len, Len(d) - (pos0 + len))]

----------------------------------------------------------------------------
(* Chunk assembly *)

\* read_chunk_at whose end-of-data return also moves the position on
read_chunk_at_eod_advances(d, pos0) ==
    IF pos0 > Len(d) THEN [pos |-> pos0, res |-> Panic]
    ELSE IF (Len(d) - pos0) < 8 THEN [pos |-> pos0 + 8, res |-> EndOfData]
    ELSE LET i == read_id_at(d, pos0)
         IN  IF i.res.kind # "Ok" THEN i
             ELSE LET id == from_ascii(i.res.val)
                      l == read_len_at(d, i.pos)
                  IN  IF id.kind # "ChunkId" THEN [pos |-> i.pos, res |-> Panic]
                      ELSE IF l.res.kind # "Ok" THEN l
                      ELSE LET len == l.res.val
                               p == read_data_at(d, l.pos, len)
                           IN  IF p.res.kind # "Ok" THEN p
                               ELSE [pos |-> p.pos,
                                     res |-> Chunk(p.res.val, id, len)]

\* read_chunk_at: the chunk starting at byte pos0 and the position after it
read_chunk_at(d, pos0) ==
    IF pos0 > Len(d) THEN [pos |-> pos0, res |-> Panic]
    ELSE IF (Len(d) - pos0) < 8 THEN [pos |-> pos0, res |-> EndOfData]
    ELSE LET i == read_id_at(d, pos0)
         IN  IF i.res.kind # "Ok" THEN i
             ELSE LET id == from_ascii(i.res.val)
                      l == read_len_at(d, i.pos)
                  IN  IF id.kind # "ChunkId" THEN [pos |-> i.pos, res |-> Panic]
                      ELSE IF l.res.kind # "Ok" THEN l
                      ELSE LET len == l.res.val
                               p == read_data_at(d, l.pos, len)
                           IN  IF p.res.kind # "Ok" THEN p
                               ELSE [pos |-> p.pos,
                                     res |-> Chunk(p.res.val, id, len)]

RECURSIVE get_chunk_from(_, _, _)
\* the loop of get_chunk with its local pos at p: the value returned, the
\* result of the read_chunk_at call that stopped the loop and the offset of it
get_chunk_from(d, wanted_id, p) ==
    LET r == read_chunk_at(d, p)
    IN  IF r.res.kind = "Chunk"
        THEN IF r.res.id = wanted_id
             THEN [res |-> r.res, stop |-> r.res, at |-> p]
             ELSE get_chunk_from(d, wanted_id, r.pos)
        ELSE IF r.res.kind = "EndOfData"
             THEN [res |-> NotFound, stop |-> r.res, at |-> p]
             ELSE [res |-> r.res, stop |-> r.res, at |-> p]

\* RiffReader::get_chunk: the scan starts at offset 0
get_chunk(d, wanted_id) == get_chunk_from(d, wanted_id, 0)

----------------------------------------------------------------------------
(* Input buffers *)

TagA == <<65, 65, 65, 65>>
TagB == <<66, 66, 66, 66>>
\* a tag whose first byte has the high bit set
TagBad == <<128, 65, 65, 65>>

\* the wire encoding of a length: 4 bytes, least significant first
LE(n) == <<n % 256, (n \div 256) % 256, (n \div 65536) % 256, (n \div 16777216) % 256>>

\* payload bytes, all different so that a shifted slice is told apart
Fill == [i \in 1..(MaxPay + 1) |-> 16 + i]

\* a record: tag, declared length n, and k payload bytes actually present
Rec(t, n, k) == t \o LE(n) \o SubSeq(Fill, 1, k)

\* records that may start a buffer, and records that may follow
FirstRecs == {Rec(t, n, k) : t \in {TagA, TagB, TagBad}, n \in 0..MaxLen, k \in 0..MaxPay}
MoreRecs == {Rec(t, n, k) : t \in {TagA, TagB}, n \in 0..MaxLen, k \in 0..MaxPay}

\* what may come before the first record: nothing, or a lone bad tag
Leads == {<<>>, TagBad}

\* buffers too short for a header: empty, or a header cut short
Shorts == {<<>>, <<65, 65, 65>>, TagB \o <<0, 0, 0>>}

RECURSIVE RecSeqs(_)
\* the concatenations of exactly n records
RecSeqs(n) ==
    IF n = 0 THEN {<<>>}
    ELSE IF n = 1 THEN FirstRecs
    ELSE {s \o r : s \in RecSeqs(n - 1), r \in MoreRecs}

Buffers ==
    {l \o s : l \in Leads, s \in Shorts \cup UNION {RecSeqs(n) : n \in 1..MaxRecs}}

\* the ids a caller can look up (built by from_ascii)
WantedIds == {from_ascii(TagA), from_ascii(TagB)}

\* the bytes from_ascii is tried on
IdBytes == {0, 65, 127, 128, 169, 195}
IdInputs == {<<a, b, c, e>> : a \in IdBytes, b \in IdBytes, c \in IdBytes, e \in IdBytes}

----------------------------------------------------------------------------
(* The reader *)

Panicked == rres.res.kind = "Panic" \/ gres.res.kind = "Panic"

\* RiffReader::new(data)
Init ==
    /\ data \in Buffers
    /\ pos = 0
    /\ rres = [res |-> NoCall, at |-> 0, prev |-> "NoCall"]
    /\ gres = [res |-> NoCall, stop |-> NoCall, at |-> 0, wanted |-> NoCall]
    /\ idIn = <<>>
    /\ idRes = NoCall
    /\ strRes = NoCall

\* RiffReader::read_next_chunk
ReadNextChunk ==
    /\ ~Panicked
    /\ LET r == read_chunk_at(data, pos)
       IN  /\ pos' = IF r.res.kind = "Panic" THEN pos ELSE r.pos
           /\ rres' = [res |-> r.res, at |-> pos, prev |-> rres.res.kind]
    /\ UNCHANGED <<data, gres, idIn, idRes, strRes>>

\* RiffReader::get_chunk(wanted_id)
GetChunk(wanted_id) ==
    /\ ~Panicked
    /\ LET g == get_chunk(data, wanted_id)
       IN  gres' = [res |-> g.res, stop |-> g.stop, at |-> g.at, wanted |-> wanted_id]
    /\ UNCHANGED <<data, pos, rres, idIn, idRes, strRes>>

Next ==
    \/ ReadNextChunk
    \/ \E w \in WantedIds : GetChunk(w)

Spec == Init /\ [][Next]_vars

----------------------------------------------------------------------------
(* ChunkId on its own *)

InitId ==
    /\ data = <<>>
    /\ pos = 0
    /\ rres = [res |-> NoCall, at |-> 0, prev |-> "NoCall"]
    /\ gres = [res |-> NoCall, stop |-> NoCall, at |-> 0, wanted |-> NoCall]
    /\ idIn \in IdInputs
    /\ idRes = NoCall
    /\ strRes = NoCall

\* a caller builds an id from idIn
FromAscii ==
    /\ idRes = NoCall
    /\ idRes' = from_ascii(idIn)
    /\ UNCHANGED <<data, pos, rres, gres, idIn, strRes>>

\* a caller who holds a ChunkId asks for its text
ToAscii ==
    /\ idRes.kind = "ChunkId"
    /\ strRes = NoCall
    /\ strRes' = to_ascii(idRes)
    /\ UNCHANGED <<data, pos, rres, gres, idIn, idRes>>

NextId == FromAscii \/ ToAscii

SpecId == InitId /\ [][NextId]_vars

----------------------------------------------------------------------------
(* What the properties below speak about *)

\* a read_next_chunk call has been made
ReadCalled == rres.res.kind # "NoCall"

\* a get_chunk call has been made
GetCalled == gres.res.kind # "NoCall"

\* the length field of the record at offset p, least significant byte first
DeclaredLen(d, p) == d[p + 5] + 256 * d[p + 6] + 65536 * d[p + 7] + 16777216 * d[p + 8]

\* the pad byte that follows a payload of odd length
PadOf(L) == IF L % 2 = 1 THEN 1 ELSE 0

\* the 4 bytes at offset p are ASCII
AsciiTagAt(d, p) == \A i \in 1..4 : d[p + i] < 128

\* a well-formed chunk starts at offset p: header, payload and pad are there
WellFormedAt(d, p) ==
    /\ p + 8 <= Len(d)
    /\ AsciiTagAt(d, p)
    /\ p + 8 + DeclaredLen(d, p) + PadOf(DeclaredLen(d, p)) <= Len(d)

\* the offset after the well-formed chunk at p
AfterChunk(d, p) == p + 8 + DeclaredLen(d, p) + PadOf(DeclaredLen(d, p))

RECURSIVE WellFormedFrom(_, _)
\* from offset p on the buffer is a sequence of well-formed chunks
WellFormedFrom(d, p) ==
    \/ p = Len(d)
    \/ /\ WellFormedAt(d, p)
       /\ WellFormedFrom(d, AfterChunk(d, p))

RECURSIVE ChunksFrom(_, _)
\* the chunks of a well-formed buffer from offset p on, in buffer order
ChunksFrom(d, p) ==
    IF p >= Len(d) THEN <<>>
    ELSE <<Chunk(SubSeq(d, p + 9, p + 8 + DeclaredLen(d, p)),
                 [kind |-> "ChunkId", id |-> SubSeq(d, p + 1, p + 4)],
                 DeclaredLen(d, p))>>
         \o ChunksFrom(d, AfterChunk(d, p))

\* the buffer is one or more well-formed chunks
WellFormedBuffer == Len(data) > 0 /\ WellFormedFrom(data, 0)

\* the positions of the chunks of the buffer that carry the id w
Matches(w) ==
    LET cs == ChunksFrom(data, 0) IN {i \in 1..Len(cs) : cs[i].id = w}

\* the first chunk of the buffer that carries the id w
FirstMatch(w) ==
    LET cs == ChunksFrom(data, 0)
        m == Matches(w)
    IN  cs[CHOOSE i \in m : \A j \in m : i <= j]

----------------------------------------------------------------------------
(* Properties *)

\* C1: a read_next_chunk call made where a well-formed chunk of declared
\* length L starts returns a chunk with len = L and data = the L bytes after
\* the header, and moves pos by 8 + L + (1 if L is odd).
C1_ReadWellFormedChunk ==
    (ReadCalled /\ WellFormedAt(data, rres.at)) =>
        LET L == DeclaredLen(data, rres.at)
        IN  /\ rres.res.kind = "Chunk"
            /\ rres.res.len = L
            /\ rres.res.data = SubSeq(data, rres.at + 9, rres.at + 8 + L)
            /\ pos = rres.at + 8 + L + PadOf(L)

\* C2: every read_next_chunk and get_chunk call returns a chunk, "not found"
\* or a named error; none panics or indexes outside the buffer.
C2_NeverPanics ==
    /\ rres.res.kind \in {"NoCall", "Chunk", "EndOfData",
                          "EncounteredInvalidIDNotASCII", "UnexpectedEndOfData"}
    /\ gres.res.kind \in {"NoCall", "Chunk", "None", "EndOfData",
                          "EncounteredInvalidIDNotASCII", "UnexpectedEndOfData"}

\* C3: a read_next_chunk call made at an ASCII tag with at least 8 bytes left
\* and a declared length L above the bytes left after the header fails with
\* UnexpectedEndOfData(offset of the length field, L, bytes available).
C3_TruncatedPayloadReported ==
    (/\ ReadCalled
     /\ rres.at + 8 <= Len(data)
     /\ AsciiTagAt(data, rres.at)
     /\ Len(data) - (rres.at + 8) < DeclaredLen(data, rres.at)) =>
        rres.res = UnexpectedEndOfData(rres.at + 4, DeclaredLen(data, rres.at),
                                       Len(data) - (rres.at + 8))

\* C4: a read_next_chunk call made with fewer than 8 bytes left at the
\* reader's position returns EndOfData, also right after the last chunk.
C4_EndOfDataWhenExhausted ==
    (ReadCalled /\ Len(data) - rres.at < 8) => rres.res = EndOfData

\* C5: on a buffer of well-formed chunks, get_chunk of an id one of them
\* carries returns the first such chunk, wherever the reader's pos is.
C5_GetChunkFindsFirstMatch ==
    (GetCalled /\ WellFormedBuffer /\ Matches(gres.wanted) # {}) =>
        gres.res = FirstMatch(gres.wanted)

\* C6: a get_chunk scan that meets no chunk of the wanted id returns "not
\* found" exactly when it stopped with EndOfData, which it does on every
\* buffer of well-formed chunks; stopped by another error, it returns that error.
C6_GetChunkAbsentOrError ==
    GetCalled =>
        /\ (gres.stop.kind # "Chunk") =>
               ((gres.res = NotFound) <=> (gres.stop = EndOfData))
        /\ (WellFormedFrom(data, 0) /\ Matches(gres.wanted) = {}) =>
               gres.res = NotFound
        /\ (gres.stop.kind \in {"EncounteredInvalidIDNotASCII", "UnexpectedEndOfData"}) =>
               gres.res = gres.stop

\* C7: from_ascii succeeds exactly on 4 bytes all below 0x80 and otherwise
\* returns InvalidIDNotASCII; to_ascii of the id gives back the 4 characters.
C7_ChunkIdRoundTrip ==
    /\ (idRes # NoCall) =>
           /\ (idRes.kind = "ChunkId") <=> (\A i \in 1..4 : idIn[i] < 128)
           /\ (idRes.kind # "ChunkId") => (idRes = InvalidIDNotASCII)
    /\ (strRes # NoCall) => (strRes.kind = "Str" /\ strRes.chars = idIn)

\* C7 witness: an id was built and turned back into text
C7_Witness == idRes.kind = "ChunkId" /\ strRes.kind = "Str"

\* C8: the invalid-tag error of read_next_chunk and of the get_chunk scan
\* carries the offset of the first byte of the bad tag.
C8_InvalidTagOffsetIsTagStart ==
    /\ (rres.res.kind = "EncounteredInvalidIDNotASCII") => (rres.res.p = rres.at)
    /\ (gres.res.kind = "EncounteredInvalidIDNotASCII") => (gres.res.p = gres.at)

\* C9: after any sequence of read_next_chunk calls, 0 <= pos <= data.length.
C9_PosWithinBuffer == 0 <= pos /\ pos <= Len(data)

\* C10 as claimed: once read_next_chunk has returned an error, no later
\* read_next_chunk returns a chunk.
C10_FaultedIsAbsorbing ==
    [][(rres.res.kind \in ErrorKinds) => (rres'.res.kind # "Chunk")]_vars

\* C10 as amended: once read_next_chunk has returned EndOfData, every later
\* read_next_chunk returns EndOfData again and leaves pos where it is.
C10_EndOfDataIsAbsorbing ==
    [][(rres.res.kind = "EndOfData") =>
           (rres'.res.kind = "EndOfData" /\ pos' = pos)]_vars

\* C10 witness: read_next_chunk was called again after it returned EndOfData
C10_Witness == rres.res.kind = "EndOfData" /\ rres.prev = "EndOfData"

====
